---- MODULE Spec2Model ----
(***************************************************************************)
(* LoRaNetworkPlanner (src/Routing.py): feasibility graph, capacitated     *)
(* breadth-first tree and frequency assignment, driven by the rebuild loop *)
(* of plan_network and the failed-connection edits of edit_network_menu.   *)
(*                                                                         *)
(* Coordinates: the gateway and the nodes lie on one meridian; 'lat' is    *)
(* the offset along it in whole kilometres, so the great-circle distance   *)
(* of two points is the absolute difference of their offsets.              *)
(* Python's None is the empty tuple <<>>, a set value x is <<x>>.          *)
(***************************************************************************)
EXTENDS Integers, Sequences, FiniteSets, TLC

VARIABLES
    keys,                  \* list(self.nodes.keys()): the dict's insertion order
    nodes,                 \* self.nodes: name -> node record
    gateway,               \* self.gateway (None before get_gateway_data)
    available_frequencies, \* self.available_frequencies
    failed_connections,    \* self.failed_connections: set of sorted pairs
    connection_map,        \* plan_network's connection_map (a defaultdict(list))
    unreachable_nodes,     \* plan_network's unreachable_nodes
    queue,                 \* the deque of find_best_tree / assign_frequencies
    visited_count,         \* find_best_tree's visited_count
    freq_pool,             \* assign_frequencies' freq_pool
    current_name,          \* the name dequeued last (current / current_name)
    served,                \* the names the running walk (find_best_tree or
                           \* assign_frequencies) has dequeued so far
    exc,                   \* the exception that left plan_network, or None
    prev,                  \* the results of the previous run, while no edit followed it
    pc                     \* position in plan_network / edit_network_menu

vars == <<keys, nodes, gateway, available_frequencies, failed_connections,
          connection_map, unreachable_nodes, queue, visited_count, freq_pool,
          current_name, served, exc, prev, pc>>

----------------------------------------------------------------------------
(* Program constants *)

GatewayThreshold == 5
NodeThreshold == 5
GatewayMaxChildren == 4
NodeMaxChildren == 4
FreqFirst == 16
FreqStop == 31
GatewayFreqDown == 3

(* Bounds of the model *)

MaxFailed == 1
MaxShrunkPool == 1

SmallKeys == <<"n1", "NodeA", "n2">>
SmallLats == {5, 9, 10}
LargeKeys == <<"NodeA", "n1", "NodeB", "n2", "NodeC", "n3">>
LargeLats == {4, 5, 9}
ChainKeys == <<"n1", "n2", "n3", "NodeA", "NodeB">>
ChainLats == {5, 9, 13, 17, 21}
StarSideLats == {-5, 5}
StarRelayLats == {4, 9}

----------------------------------------------------------------------------
(* Values *)

None == <<>>
Some(x) == <<x>>
Val(o) == o[1]

Range(s) == {s[i] : i \in 1..Len(s)}

\* list(range(a, b))
ListRange(a, b) == [i \in 1..(IF b > a THEN b - a ELSE 0) |-> a + i - 1]

\* Python compares str by code point: upper case sorts before lower case.
StrOrder == <<"NodeA", "NodeB", "NodeC", "gateway", "ghost", "n1", "n2", "n3">>
StrRank(s) == CHOOSE i \in 1..Len(StrOrder) : StrOrder[i] = s
StrLeq(a, b) == StrRank(a) <= StrRank(b)

\* tuple(sorted([a, b])) with the order dropped (a mutation of SortedPair)
SortedPair_unsorted(a, b) == <<a, b>>

\* tuple(sorted([a, b]))
SortedPair(a, b) == IF StrLeq(a, b) THEN <<a, b>> ELSE <<b, a>>

Abs(x) == IF x < 0 THEN -x ELSE x

\* haversine_distance on one meridian, in km
haversine_distance(lat1, lat2) == Abs(lat2 - lat1)

\* add_node: the record of a new node
add_node(lat, direct_to_gw) ==
    [lat |-> lat, direct_to_gw |-> direct_to_gw, parent |-> None,
     children |-> <<>>, freq_up |-> None, freq_down |-> None,
     visited |-> FALSE]

\* get_gateway_data: the record of the gateway
get_gateway_data(lat) == [lat |-> lat, children |-> <<>>, freq_down |-> None]

----------------------------------------------------------------------------
(* build_connection_map *)

\* connection_map[k].append(v) on a defaultdict(list)
MapAppend(m, k, v) ==
    IF k \in DOMAIN m THEN [m EXCEPT ![k] = Append(@, v)] ELSE m @@ (k :> <<v>>)

\* connection_pair in self.failed_connections
IsFailed(a, b) == SortedPair(a, b) \in failed_connections

\* the test of line 134 with an exclusive threshold (a mutation)
GatewayLinkOk_exclusive(name) ==
    /\ nodes[name].direct_to_gw
    /\ haversine_distance(gateway.lat, nodes[name].lat) < GatewayThreshold
    /\ ~IsFailed("gateway", name)

\* the test of line 134
GatewayLinkOk(name) ==
    /\ nodes[name].direct_to_gw
    /\ haversine_distance(gateway.lat, nodes[name].lat) <= GatewayThreshold
    /\ ~IsFailed("gateway", name)

\* the test of line 165 without the failed-connection lookup (a mutation)
NodeLinkOk_nofailed(n1, n2) ==
    haversine_distance(nodes[n1].lat, nodes[n2].lat) < NodeThreshold

\* the test of line 165
NodeLinkOk(n1, n2) ==
    /\ haversine_distance(nodes[n1].lat, nodes[n2].lat) < NodeThreshold
    /\ ~IsFailed(n1, n2)

\* the loop of lines 124-146 from the i-th key on
RECURSIVE GatewayLinks(_, _)
GatewayLinks(m, i) ==
    IF i > Len(keys) THEN m
    ELSE IF GatewayLinkOk(keys[i])
         THEN GatewayLinks(MapAppend(MapAppend(m, "gateway", keys[i]),
                                     keys[i], "gateway"), i + 1)
         ELSE GatewayLinks(m, i + 1)

\* the loops of lines 151-175 from the pair (i, j) on
RECURSIVE NodeLinks(_, _, _)
NodeLinks(m, i, j) ==
    IF i > Len(keys) THEN m
    ELSE IF j > Len(keys) THEN NodeLinks(m, i + 1, i + 2)
    ELSE IF NodeLinkOk(keys[i], keys[j])
         THEN NodeLinks(MapAppend(MapAppend(m, keys[i], keys[j]),
                                  keys[j], keys[i]), i, j + 1)
         ELSE NodeLinks(m, i, j + 1)

EmptyMap == [k \in {} |-> <<>>]

\* the connection map that build_connection_map returns
build_connection_map ==
    NodeLinks(IF gateway # None THEN GatewayLinks(EmptyMap, 1) ELSE EmptyMap,
              1, 2)

----------------------------------------------------------------------------
(* find_best_tree *)

\* lines 185-188: the reset without the visited flag (a mutation)
ResetNode_keepvisited(n) == [n EXCEPT !.parent = None, !.children = <<>>]

\* lines 185-188: the reset of one node
ResetNode(n) == [n EXCEPT !.visited = FALSE, !.parent = None, !.children = <<>>]

\* line 203 without the capacity limit (a mutation)
GatewayCanAccept_unlimited(children) == TRUE

\* line 203: the gateway accepts another child
GatewayCanAccept(children) == Len(children) < GatewayMaxChildren

\* line 211 without the capacity limit (a mutation)
NodeCanAccept_unlimited(children) == TRUE

\* line 211 with a limit of 3 (a mutation)
NodeCanAccept_three(children) == Len(children) < 3

\* line 211: a node accepts another child
NodeCanAccept(children) == Len(children) < NodeMaxChildren

\* lines 204-208 / 212-216 without `visited_count += 1` (a mutation)
Attach_nocount(st, current, neighbor) ==
    LET marked == [st.nodes EXCEPT ![neighbor].parent = Some(current),
                                   ![neighbor].visited = TRUE]
    IN  [nodes      |-> IF current = "gateway" THEN marked
                        ELSE [marked EXCEPT ![current].children =
                                                Append(@, neighbor)],
         gwchildren |-> IF current = "gateway"
                        THEN Append(st.gwchildren, neighbor)
                        ELSE st.gwchildren,
         queue      |-> Append(st.queue, neighbor),
         count      |-> st.count]

\* lines 204-208 / 212-216 without the append to the children (a mutation)
Attach_nochild(st, current, neighbor) ==
    [nodes      |-> [st.nodes EXCEPT ![neighbor].parent = Some(current),
                                     ![neighbor].visited = TRUE],
     gwchildren |-> st.gwchildren,
     queue      |-> Append(st.queue, neighbor),
     count      |-> st.count + 1]

\* lines 204-208 / 212-216 without `visited = True` (a mutation)
Attach_unvisited(st, current, neighbor) ==
    LET marked == [st.nodes EXCEPT ![neighbor].parent = Some(current)]
    IN  [nodes      |-> IF current = "gateway" THEN marked
                        ELSE [marked EXCEPT ![current].children =
                                                Append(@, neighbor)],
         gwchildren |-> IF current = "gateway"
                        THEN Append(st.gwchildren, neighbor)
                        ELSE st.gwchildren,
         queue      |-> Append(st.queue, neighbor),
         count      |-> st.count + 1]

\* lines 204-208 / 212-216: attach neighbor as a child of current.
\* st = [nodes, gwchildren, queue, count] is the state the loop body updates.
Attach(st, current, neighbor) ==
    LET marked == [st.nodes EXCEPT ![neighbor].parent = Some(current),
                                   ![neighbor].visited = TRUE]
    IN  [nodes      |-> IF current = "gateway" THEN marked
                        ELSE [marked EXCEPT ![current].children =
                                                Append(@, neighbor)],
         gwchildren |-> IF current = "gateway"
                        THEN Append(st.gwchildren, neighbor)
                        ELSE st.gwchildren,
         queue      |-> Append(st.queue, neighbor),
         count      |-> st.count + 1]

\* lines 199-217: the for loop over connection_map[current] from index i on
RECURSIVE VisitNeighbors(_, _, _, _)
VisitNeighbors(st, current, nbrs, i) ==
    IF i > Len(nbrs) THEN st
    ELSE LET neighbor == nbrs[i]
             accept == IF current = "gateway"
                       THEN GatewayCanAccept(st.gwchildren)
                       ELSE NodeCanAccept(st.nodes[current].children)
         IN  IF neighbor # "gateway" /\ ~st.nodes[neighbor].visited /\ accept
             THEN VisitNeighbors(Attach(st, current, neighbor), current, nbrs, i + 1)
             ELSE VisitNeighbors(st, current, nbrs, i + 1)

\* line 220: the names of the nodes not visited, in dict order
Unvisited == SelectSeq(keys, LAMBDA k : ~nodes[k].visited)

\* lines 181-182 and 231-232 raising a NoGateway failure (a mutation)
MissingGateway_fatal ==
    [raise |-> TRUE, exc |-> [type |-> "NoGateway", args |-> <<>>]]

\* lines 181-182 and 231-232: `if not self.gateway: return`, nothing is raised
MissingGateway == [raise |-> FALSE, exc |-> None]

\* lines 181-193: the precondition, the reset and the seeding of the queue
TreeStart ==
    /\ pc = "tree"
    /\ IF gateway = None
       THEN /\ unreachable_nodes' = None
            /\ exc' = MissingGateway.exc
            /\ pc' = IF MissingGateway.raise THEN "crashed" ELSE "assign"
            /\ UNCHANGED <<nodes, gateway, queue, visited_count, served>>
       ELSE /\ nodes' = [k \in DOMAIN nodes |-> ResetNode(nodes[k])]
            /\ gateway' = [gateway EXCEPT !.children = <<>>]
            /\ queue' = <<"gateway">>
            /\ visited_count' = 0
            /\ served' = <<>>
            /\ pc' = "treeLoop"
            /\ UNCHANGED <<unreachable_nodes, exc>>
    /\ UNCHANGED <<keys, available_frequencies, failed_connections,
                   connection_map, freq_pool, current_name, prev>>

\* lines 195-217: one iteration of the while loop
TreeStep ==
    /\ pc = "treeLoop"
    /\ queue # <<>>
    /\ LET current == Head(queue)
           st0 == [nodes |-> nodes, gwchildren |-> gateway.children,
                   queue |-> Tail(queue), count |-> visited_count]
           st1 == IF current \in DOMAIN connection_map
                  THEN VisitNeighbors(st0, current, connection_map[current], 1)
                  ELSE st0
       IN  /\ current_name' = Some(current)
           /\ served' = Append(served, current)
           /\ nodes' = st1.nodes
           /\ gateway' = [gateway EXCEPT !.children = st1.gwchildren]
           /\ queue' = st1.queue
           /\ visited_count' = st1.count
    /\ UNCHANGED <<keys, available_frequencies, failed_connections,
                   connection_map, unreachable_nodes, freq_pool,
                   exc, prev, pc>>

\* lines 220-227: the queue is empty, the unreachable nodes are returned
TreeFinish ==
    /\ pc = "treeLoop"
    /\ queue = <<>>
    /\ unreachable_nodes' = Unvisited
    /\ pc' = "assign"
    /\ UNCHANGED <<keys, nodes, gateway, available_frequencies,
                   failed_connections, connection_map, queue, visited_count,
                   freq_pool, current_name, served, exc, prev>>

----------------------------------------------------------------------------
(* assign_frequencies *)

\* line 255: the exception raised when the pool is empty
PoolExhausted ==
    [type |-> "Exception",
     args |-> <<"No more frequencies available in pool 16-30">>]

\* lines 245-248 reading the gateway's downlink for every node (a mutation)
ParentFreqDown_gateway(ns, gw, name) == gw.freq_down

\* lines 245-248: the downlink frequency of the parent of name
ParentFreqDown(ns, gw, name) ==
    IF ns[name].parent = Some("gateway") THEN gw.freq_down
    ELSE ns[Val(ns[name].parent)].freq_down

\* lines 252-255 leaving the node without a downlink when the pool is empty
\* (a mutation)
TakeFrequency_skip(pool) ==
    IF pool # <<>>
    THEN [raise |-> FALSE, set |-> TRUE, freq |-> Some(Head(pool)), pool |-> Tail(pool)]
    ELSE [raise |-> FALSE, set |-> FALSE, freq |-> None, pool |-> pool]

\* lines 252-255 with freq_pool.pop() taking the last value (a mutation)
TakeFrequency_last(pool) ==
    IF pool # <<>>
    THEN [raise |-> FALSE, set |-> TRUE, freq |-> Some(pool[Len(pool)]),
          pool |-> SubSeq(pool, 1, Len(pool) - 1)]
    ELSE [raise |-> TRUE, set |-> FALSE, freq |-> None, pool |-> pool]

\* lines 252-255: freq_pool.pop(0), or the exception
TakeFrequency(pool) ==
    IF pool # <<>>
    THEN [raise |-> FALSE, set |-> TRUE, freq |-> Some(Head(pool)), pool |-> Tail(pool)]
    ELSE [raise |-> TRUE, set |-> FALSE, freq |-> None, pool |-> pool]

\* lines 231-238: the precondition, the gateway's downlink, the queue, the pool
FreqStart ==
    /\ pc = "assign"
    /\ IF gateway = None
       THEN /\ exc' = MissingGateway.exc
            /\ pc' = IF MissingGateway.raise THEN "crashed" ELSE "done"
            /\ UNCHANGED <<gateway, queue, freq_pool, served>>
       ELSE /\ gateway' = [gateway EXCEPT !.freq_down = Some(GatewayFreqDown)]
            /\ queue' = gateway.children
            /\ freq_pool' = available_frequencies
            /\ served' = <<>>
            /\ pc' = "freqLoop"
            /\ UNCHANGED exc
    /\ UNCHANGED <<keys, nodes, available_frequencies, failed_connections,
                   connection_map, unreachable_nodes, visited_count,
                   current_name, prev>>

\* lines 240-258: one iteration of the while loop
FreqStep ==
    /\ pc = "freqLoop"
    /\ queue # <<>>
    /\ LET name == Head(queue)
           up == [nodes EXCEPT ![name].freq_up = ParentFreqDown(nodes, gateway, name)]
           take == TakeFrequency(freq_pool)
       IN  /\ current_name' = Some(name)
           /\ served' = Append(served, name)
           /\ IF nodes[name].children = <<>>
              THEN /\ nodes' = up
                   /\ queue' = Tail(queue)
                   /\ UNCHANGED <<freq_pool, exc, pc>>
              ELSE IF take.raise
              THEN /\ nodes' = up
                   /\ queue' = Tail(queue)
                   /\ exc' = PoolExhausted
                   /\ pc' = "crashed"
                   /\ UNCHANGED freq_pool
              ELSE /\ nodes' = IF take.set
                               THEN [up EXCEPT ![name].freq_down = take.freq]
                               ELSE up
                   /\ freq_pool' = take.pool
                   /\ queue' = Tail(queue) \o nodes[name].children
                   /\ UNCHANGED <<exc, pc>>
    /\ UNCHANGED <<keys, gateway, available_frequencies, failed_connections,
                   connection_map, unreachable_nodes, visited_count, prev>>

\* line 240: the queue is empty, assign_frequencies returns
FreqFinish ==
    /\ pc = "freqLoop"
    /\ queue = <<>>
    /\ pc' = "done"
    /\ UNCHANGED <<keys, nodes, gateway, available_frequencies,
                   failed_connections, connection_map, unreachable_nodes,
                   queue, visited_count, freq_pool, current_name, served, exc,
                   prev>>

----------------------------------------------------------------------------
(* add_failed_connection, remove_failed_connection, edit_network_menu *)

\* the names a user types at the prompts of add_failed_connection: the nodes,
\* 'gateway', and a name that is no node
InputNames == Range(keys) \cup {"gateway", "ghost"}

\* lines 83-93 without the two validations (a mutation)
AddOutcome_unchecked(failed, node1, node2) ==
    [out |-> "added", failed |-> failed \cup {SortedPair(node1, node2)}]

\* lines 83-93: the line printed and the failed set left by the two names typed
AddOutcome(failed, node1, node2) ==
    IF node1 # "gateway" /\ node1 \notin DOMAIN nodes
    THEN [out |-> "error1", failed |-> failed]
    ELSE IF node2 \notin DOMAIN nodes
    THEN [out |-> "error2", failed |-> failed]
    ELSE [out |-> "added", failed |-> failed \cup {SortedPair(node1, node2)}]

\* lines 97-115: the line printed and the failed set left; removed is the
\* connection the typed number selects, None when the number is out of range
\* or not a number
RemoveOutcome(failed, removed) ==
    IF failed = {} THEN [out |-> "nothing", failed |-> failed]
    ELSE IF removed = None THEN [out |-> "invalid", failed |-> failed]
    ELSE [out |-> "removed", failed |-> failed \ {Val(removed)}]

\* lines 74-93: menu choice 1 with the two names typed
add_failed_connection(node1, node2) ==
    /\ pc = "menu"
    /\ Cardinality(failed_connections) < MaxFailed
    /\ LET o == AddOutcome(failed_connections, node1, node2)
       IN  /\ failed_connections' = o.failed
           /\ prev' = IF o.out = "added" THEN None ELSE prev
    /\ UNCHANGED <<keys, nodes, gateway, available_frequencies, connection_map,
                   unreachable_nodes, queue, visited_count, freq_pool,
                   current_name, served, exc, pc>>

\* lines 95-115: menu choice 2 with the number typed
remove_failed_connection(removed) ==
    /\ pc = "menu"
    /\ LET o == RemoveOutcome(failed_connections, removed)
       IN  /\ failed_connections' = o.failed
           /\ prev' = IF o.out = "removed" THEN None ELSE prev
    /\ UNCHANGED <<keys, nodes, gateway, available_frequencies, connection_map,
                   unreachable_nodes, queue, visited_count, freq_pool,
                   current_name, served, exc, pc>>

\* lines 339-340: menu choice 4, the network is rebuilt
MenuRebuild ==
    /\ pc = "menu"
    /\ pc' = "build"
    /\ UNCHANGED <<keys, nodes, gateway, available_frequencies,
                   failed_connections, connection_map, unreachable_nodes,
                   queue, visited_count, freq_pool, current_name, served, exc, prev>>

\* lines 341-342: menu choice 5, plan_network returns
MenuReturn ==
    /\ pc = "menu"
    /\ pc' = "exit"
    /\ UNCHANGED <<keys, nodes, gateway, available_frequencies,
                   failed_connections, connection_map, unreachable_nodes,
                   queue, visited_count, freq_pool, current_name, served, exc, prev>>

----------------------------------------------------------------------------
(* plan_network *)

\* the results of a finished run
Snapshot == [nodes |-> nodes, gateway |-> gateway]

\* line 364: the connection map of this run
Build ==
    /\ pc = "build"
    /\ connection_map' = build_connection_map
    /\ pc' = "tree"
    /\ UNCHANGED <<keys, nodes, gateway, available_frequencies,
                   failed_connections, unreachable_nodes, queue, visited_count,
                   freq_pool, current_name, served, exc, prev>>

\* lines 394-396: the user chooses to edit the network
EditYes ==
    /\ pc = "done"
    /\ pc' = "menu"
    /\ prev' = Some(Snapshot)
    /\ UNCHANGED <<keys, nodes, gateway, available_frequencies,
                   failed_connections, connection_map, unreachable_nodes,
                   queue, visited_count, freq_pool, current_name, served, exc>>

\* lines 397-398: the user declines, plan_network returns
EditNo ==
    /\ pc = "done"
    /\ pc' = "exit"
    /\ UNCHANGED <<keys, nodes, gateway, available_frequencies,
                   failed_connections, connection_map, unreachable_nodes,
                   queue, visited_count, freq_pool, current_name, served, exc,
                   prev>>

----------------------------------------------------------------------------
(* Specifications *)

\* self.available_frequencies: range(16, 31), or a shrunk range of 0..MaxShrunkPool
Pools ==
    {ListRange(FreqFirst, FreqFirst + k) : k \in 0..MaxShrunkPool}
        \cup {ListRange(FreqFirst, FreqStop)}

\* lines 5-9 and 59-72: the planner after __init__ and one add_node per key
\* (its record drawn from recs), with gw as self.gateway
InitGateway(ks, recs, pools, gw) ==
    /\ keys = ks
    /\ nodes \in [Range(ks) -> recs]
    /\ gateway = gw
    /\ available_frequencies \in pools
    /\ failed_connections = {}
    /\ connection_map = EmptyMap
    /\ unreachable_nodes = None
    /\ queue = <<>>
    /\ visited_count = 0
    /\ freq_pool = <<>>
    /\ current_name = None
    /\ served = <<>>
    /\ exc = None
    /\ prev = None
    /\ pc = "build"

\* the planner after get_gateway_data and get_nodes_data
InitWith(ks, lats, pools) ==
    InitGateway(ks, {add_node(lat, d) : lat \in lats, d \in BOOLEAN}, pools,
                get_gateway_data(0))

Init == InitWith(SmallKeys, SmallLats, Pools)

Next ==
    \/ Build
    \/ TreeStart
    \/ TreeStep
    \/ TreeFinish
    \/ FreqStart
    \/ FreqStep
    \/ FreqFinish
    \/ EditYes
    \/ EditNo
    \/ \E node1 \in InputNames, node2 \in InputNames :
           add_failed_connection(node1, node2)
    \/ \E removed \in {Some(c) : c \in failed_connections} \cup {None} :
           remove_failed_connection(removed)
    \/ MenuRebuild
    \/ MenuReturn

Spec == Init /\ [][Next]_vars

\* one run of build_connection_map and find_best_tree on six nodes
InitCap == InitWith(LargeKeys, LargeLats, {ListRange(FreqFirst, FreqStop)})

NextCap ==
    \/ Build
    \/ TreeStart
    \/ TreeStep
    \/ TreeFinish

SpecCap == InitCap /\ [][NextCap]_vars

\* a planner whose gateway was never set: the three stages called in turn
InitNoGateway ==
    InitGateway(SmallKeys, {add_node(lat, d) : lat \in SmallLats, d \in BOOLEAN},
                Pools, None)

NextNoGateway ==
    \/ Build
    \/ TreeStart
    \/ FreqStart

SpecNoGateway == InitNoGateway /\ [][NextNoGateway]_vars

\* one run of build_connection_map and find_best_tree on six nodes: nodes
\* flagged or not on either side of the gateway at 5 km, and unflagged
\* nodes at 4 and 9 km
InitStar ==
    InitGateway(LargeKeys,
                {add_node(lat, d) : lat \in StarSideLats, d \in BOOLEAN}
                    \cup {add_node(lat, FALSE) : lat \in StarRelayLats},
                {ListRange(FreqFirst, FreqStop)}, get_gateway_data(0))

SpecStar == InitStar /\ [][NextCap]_vars

\* one run of the three stages on five nodes placed 4 km apart along the
\* meridian, each flagged for direct attachment; the stages run to their end
InitChain ==
    InitGateway(ChainKeys, {add_node(lat, TRUE) : lat \in ChainLats}, Pools,
                get_gateway_data(0))

NextChain ==
    \/ Build
    \/ TreeStart
    \/ TreeStep
    \/ TreeFinish
    \/ FreqStart
    \/ FreqStep
    \/ FreqFinish

\* the steps of the two walks: once called, find_best_tree and
\* assign_frequencies run on until they return or raise
WalkSteps ==
    \/ TreeStart
    \/ TreeStep
    \/ TreeFinish
    \/ FreqStart
    \/ FreqStep
    \/ FreqFinish

SpecChain == InitChain /\ [][NextChain]_vars /\ WF_vars(WalkSteps)

----------------------------------------------------------------------------
(* Vocabulary of the properties *)

Names == Range(keys)

Attached(n) == nodes[n].parent # None
ParentOf(n) == Val(nodes[n].parent)
ChildrenOf(p) == IF p = "gateway" THEN gateway.children ELSE nodes[p].children

\* b is in the connection map's list of a
InMap(a, b) == a \in DOMAIN connection_map /\ b \in Range(connection_map[a])

\* the unordered pair {a, b} is stored in failed_connections in some order
PairFailed(a, b) == <<a, b>> \in failed_connections \/ <<b, a>> \in failed_connections

\* find_best_tree has returned in this run and no edit followed
TreeBuilt == pc \in {"assign", "freqLoop", "done", "crashed"}

\* following parent pointers from n reaches the gateway without a repeat
RECURSIVE ReachesGateway(_, _)
ReachesGateway(n, seen) ==
    IF n = "gateway" THEN TRUE
    ELSE IF n \in seen \/ ~Attached(n) THEN FALSE
    ELSE ReachesGateway(ParentOf(n), seen \cup {n})

\* the identities a path of the connection map joins to those of S
RECURSIVE Connected(_)
Connected(S) ==
    LET T == S \cup {b \in Names \cup {"gateway"} : \E a \in S : InMap(a, b)}
    IN  IF T = S THEN S ELSE Connected(T)

\* the nodes of the tree in breadth-first order, from the queue q on
RECURSIVE TreeOrder(_)
TreeOrder(q) ==
    IF q = <<>> THEN <<>>
    ELSE <<Head(q)>> \o TreeOrder(Tail(q) \o nodes[Head(q)].children)

\* the nodes with children, in breadth-first order
Branching == SelectSeq(TreeOrder(gateway.children),
                       LAMBDA n : nodes[n].children # <<>>)

\* the position of x in the sequence s (0 when absent)
IndexOf(s, x) == IF x \in Range(s) THEN CHOOSE i \in 1..Len(s) : s[i] = x ELSE 0

----------------------------------------------------------------------------
(* C1: when find_best_tree has returned, no node is its own parent,        *)
(* following the parent pointers from any attached node reaches the        *)
(* gateway without visiting a node twice, and no node has more than 4      *)
(* children, in its children list or by the parent pointers.               *)
C1_Forest ==
    pc = "assign" =>
        \A n \in Names :
            /\ nodes[n].parent # Some(n)
            /\ Attached(n) => ReachesGateway(n, {})
            /\ Len(nodes[n].children) <= 4
            /\ Cardinality({c \in Names : nodes[c].parent = Some(n)}) <= 4

\* a node holds 4 children and left a fifth neighbour of its own unattached
C1_Witness ==
    /\ pc = "assign"
    /\ \E n \in Names, m \in Names :
           /\ Len(nodes[n].children) = 4
           /\ InMap(n, m)
           /\ ~Attached(m)

(* C9: every node find_best_tree returns as unreachable has no path from   *)
(* the gateway in the connection map the tree was built from.              *)
C9_UnreachableHasNoPath ==
    pc = "assign" =>
        \A n \in Range(unreachable_nodes) : n \notin Connected({"gateway"})


\* the link a--b is within range (and allowed by the flag), failed or not
InRange(a, b) ==
    IF a = "gateway"
    THEN nodes[b].direct_to_gw /\ haversine_distance(gateway.lat, nodes[b].lat) <= 5
    ELSE IF b = "gateway"
    THEN nodes[a].direct_to_gw /\ haversine_distance(gateway.lat, nodes[a].lat) <= 5
    ELSE a # b /\ haversine_distance(nodes[a].lat, nodes[b].lat) < 5

(* C2: after every run's find_best_tree, every tree edge parent->child is  *)
(* an edge of the connection map built in that run, in both directions,    *)
(* and its pair is not in failed_connections; a node all of whose links    *)
(* in range are failed pairs is returned as unreachable.                   *)
C2_TreeEdgesFeasible ==
    TreeBuilt =>
        \A n \in Names :
            /\ Attached(n) =>
                   /\ InMap(ParentOf(n), n)
                   /\ InMap(n, ParentOf(n))
                   /\ ~PairFailed(ParentOf(n), n)
            /\ (\A m \in Names \cup {"gateway"} : InRange(m, n) => PairFailed(m, n))
                   => n \in Range(unreachable_nodes)

\* a node that was a child of the gateway in an earlier run (its uplink is
\* still the gateway's 3) is unreachable in this one, its only link in range
\* being the failed pair with the gateway
C2_Witness ==
    /\ TreeBuilt
    /\ \E n \in Names :
           /\ nodes[n].freq_up = Some(3)
           /\ InRange("gateway", n)
           /\ PairFailed("gateway", n)
           /\ \A m \in Names : ~InRange(m, n)
           /\ n \in Range(unreachable_nodes)

(* C3: when assign_frequencies has returned, every attached node has a     *)
(* freq_up that is set and equals the freq_down of its parent (of the      *)
(* gateway for the gateway's children); while it runs, the parent of every *)
(* queued node already has its freq_down set.                              *)
C3_UplinkIsParentDownlink ==
    /\ pc = "done" =>
           \A n \in Names :
               Attached(n) =>
                   /\ nodes[n].freq_up # None
                   /\ nodes[n].freq_up =
                          (IF ParentOf(n) = "gateway" THEN gateway.freq_down
                           ELSE nodes[ParentOf(n)].freq_down)
    /\ pc = "freqLoop" =>
           \A i \in 1..Len(queue) :
               (IF ParentOf(queue[i]) = "gateway" THEN gateway.freq_down
                ELSE nodes[ParentOf(queue[i])].freq_down) # None

\* a chain of three: the uplinks are 3, 16 and 17
C3_Witness ==
    /\ pc = "done"
    /\ \E a \in Names, b \in Names, c \in Names :
           /\ nodes[a].parent = Some("gateway") /\ nodes[a].freq_up = Some(3)
           /\ nodes[b].parent = Some(a) /\ nodes[b].freq_up = Some(16)
           /\ nodes[c].parent = Some(b) /\ nodes[c].freq_up = Some(17)

(* C4: when assign_frequencies has returned, the downlink frequencies held *)
(* by the gateway and by the nodes are pairwise distinct, and no node's    *)
(* downlink equals its own uplink.                                         *)
C4_DownlinksDistinct ==
    pc = "done" =>
        /\ \A n \in Names :
               nodes[n].freq_down # None =>
                   /\ nodes[n].freq_down # gateway.freq_down
                   /\ nodes[n].freq_down # nodes[n].freq_up
        /\ \A n \in Names, m \in Names :
               (n # m /\ nodes[n].freq_down # None) =>
                   nodes[n].freq_down # nodes[m].freq_down

(* C5: the map build_connection_map returns is symmetric; gateway<->node   *)
(* is in it iff the node's direct_to_gw flag is set, its distance to the   *)
(* gateway is <= 5 and the pair is not failed; node<->node for two         *)
(* distinct nodes is in it iff their distance is < 5 and the pair is not   *)
(* failed.                                                                 *)
C5_ConnectionMap ==
    pc = "tree" =>
        /\ \A a \in Names \cup {"gateway"}, b \in Names \cup {"gateway"} :
               InMap(a, b) <=> InMap(b, a)
        /\ \A n \in Names :
               InMap("gateway", n) <=>
                   /\ nodes[n].direct_to_gw
                   /\ haversine_distance(gateway.lat, nodes[n].lat) <= 5
                   /\ ~PairFailed("gateway", n)
        /\ \A a \in Names, b \in Names :
               a # b =>
                   (InMap(a, b) <=>
                       /\ haversine_distance(nodes[a].lat, nodes[b].lat) < 5
                       /\ ~PairFailed(a, b))

\* a node at exactly 5 km is linked to the gateway, two nodes exactly 5 km
\* apart are not linked, and a failed pair in range is not linked
C5_Witness ==
    /\ pc = "tree"
    /\ \E n \in Names :
           haversine_distance(gateway.lat, nodes[n].lat) = 5 /\ InMap("gateway", n)
    /\ \E a \in Names, b \in Names :
           haversine_distance(nodes[a].lat, nodes[b].lat) = 5 /\ ~InMap(a, b)
    /\ \E a \in Names, b \in Names :
           /\ a # b
           /\ haversine_distance(nodes[a].lat, nodes[b].lat) < 5
           /\ PairFailed(a, b)
           /\ ~InMap(a, b)


\* the graph builder's lookup of the pair (a, b) in the set failed
Lookup(failed, a, b) == SortedPair(a, b) \in failed

(* C6 as stated: for every pair (a, b) of a node or the gateway with a     *)
(* node or the gateway, the gateway first or second, adding (a, b) makes   *)
(* the graph builder's lookup find the pair in both orders.                *)
C6_AddFoundAnyOrder ==
    pc = "menu" =>
        \A a \in Names \cup {"gateway"}, b \in Names \cup {"gateway"} :
            a # b =>
                LET added == AddOutcome(failed_connections, a, b)
                IN  Lookup(added.failed, a, b) /\ Lookup(added.failed, b, a)

(* C6 amended: for every pair (a, b) where a is a registered node or the   *)
(* gateway and b is a registered node, adding (a, b) makes the graph       *)
(* builder's lookup find the pair in both orders, and removing that pair   *)
(* makes the lookup find it in neither; with 'gateway' typed as the second *)
(* name the addition is refused and the set is left as it was.             *)
C6_AddRemoveLookup ==
    pc = "menu" =>
        /\ \A a \in Names \cup {"gateway"}, b \in Names :
               LET added == AddOutcome(failed_connections, a, b)
                   stored == CHOOSE c \in added.failed :
                                 c \in {<<a, b>>, <<b, a>>}
                   removed == RemoveOutcome(added.failed, Some(stored))
               IN  /\ added.out = "added"
                   /\ Lookup(added.failed, a, b)
                   /\ Lookup(added.failed, b, a)
                   /\ removed.out = "removed"
                   /\ ~Lookup(removed.failed, a, b)
                   /\ ~Lookup(removed.failed, b, a)
        /\ \A a \in Names \cup {"gateway"} :
               LET refused == AddOutcome(failed_connections, a, "gateway")
               IN  refused.out = "error2" /\ refused.failed = failed_connections

\* ('gateway', 'NodeA') was typed and is stored as ('NodeA', 'gateway')
C6_Witness ==
    /\ pc = "menu"
    /\ failed_connections = {<<"NodeA", "gateway">>}

(* C7 as stated: the failure raised on exhaustion identifies the node that *)
(* could not be served.                                                    *)
C7_FailureNamesNode ==
    pc = "crashed" =>
        \E i \in 1..Len(exc.args) : exc.args[i] = Val(current_name)

\* a step of assign_frequencies writes only the frequencies of the node it
\* dequeues, and only its uplink when it raises
FreqStepWrites ==
    pc = "freqLoop" /\ queue # <<>> =>
        /\ \A n \in Names \ {Head(queue)} : nodes'[n] = nodes[n]
        /\ nodes' = [nodes EXCEPT ![Head(queue)].freq_up = nodes'[Head(queue)].freq_up,
                                  ![Head(queue)].freq_down = nodes'[Head(queue)].freq_down]
        /\ pc' = "crashed" =>
               nodes'[Head(queue)].freq_down = nodes[Head(queue)].freq_down

\* the states of C7: where the run ends, and what it has served by then
ExhaustionStates ==
    LET k == Len(available_frequencies)
        order == TreeOrder(gateway.children)
    IN  /\ pc = "done" => (Len(Branching) <= k /\ served = order)
        /\ pc = "crashed" =>
               /\ exc = PoolExhausted
               /\ Len(Branching) > k
               /\ current_name = Some(Branching[k + 1])
               /\ freq_pool = <<>>
               /\ served = SubSeq(order, 1, IndexOf(order, Val(current_name)))
        /\ pc # "crashed" => exc = None

(* C7 amended: if the pool is empty when a node with at least one child is *)
(* dequeued, assign_frequencies aborts at once with the exception 'No more *)
(* frequencies available in pool 16-30', which does not name the node; no  *)
(* node later in breadth-first order receives a frequency in that run.     *)
(* With a pool of k values this happens exactly when the tree has more     *)
(* than k nodes with children, at the (k+1)-th of them in that order.      *)
C7_Exhaustion ==
    /\ []ExhaustionStates
    /\ [][FreqStepWrites]_vars
    /\ [][pc # "crashed"]_vars

\* a pool of one value and a chain of three: the run stops at the second node
C7_Witness ==
    /\ pc = "crashed"
    /\ Len(available_frequencies) = 1
    /\ \E a \in Names, b \in Names, c \in Names :
           /\ gateway.children = <<a>>
           /\ nodes[a].children = <<b>> /\ nodes[a].freq_down = Some(16)
           /\ nodes[b].children = <<c>> /\ nodes[b].freq_down = None
           /\ nodes[b].freq_up = Some(16)
           /\ served = <<a, b>>
           /\ nodes[c].freq_up = None

(* C8: after every completed run a node with no children has freq_down     *)
(* unset, and a node that is unreachable has parent, freq_up and freq_down *)
(* unset.                                                                  *)
C8_NoStaleFields ==
    pc = "done" =>
        \A n \in Names :
            /\ nodes[n].children = <<>> => nodes[n].freq_down = None
            /\ n \in Range(unreachable_nodes) =>
                   /\ nodes[n].parent = None
                   /\ nodes[n].freq_up = None
                   /\ nodes[n].freq_down = None

(* C10: a run that follows the previous run with no edit of the failed set *)
(* between them (same gateway, nodes and failed set) ends with the same    *)
(* parent, children, freq_up and freq_down for every node, and the same    *)
(* children and freq_down of the gateway, as the previous run.             *)
C10_RerunIdentical ==
    (pc = "done" /\ prev # None) =>
        /\ \A n \in Names :
               /\ nodes[n].parent = Val(prev).nodes[n].parent
               /\ nodes[n].children = Val(prev).nodes[n].children
               /\ nodes[n].freq_up = Val(prev).nodes[n].freq_up
               /\ nodes[n].freq_down = Val(prev).nodes[n].freq_down
        /\ gateway.children = Val(prev).gateway.children
        /\ gateway.freq_down = Val(prev).gateway.freq_down

\* a second run on the same failed set rebuilt a chain with its frequencies
C10_Witness ==
    /\ pc = "done" /\ prev # None
    /\ \E a \in Names, b \in Names, c \in Names :
           /\ nodes[a].parent = Some("gateway") /\ nodes[a].freq_down = Some(16)
           /\ nodes[b].parent = Some(a) /\ nodes[b].freq_down = Some(17)
           /\ nodes[c].parent = Some(b) /\ nodes[c].freq_up = Some(17)

----------------------------------------------------------------------------
\* the gateway's list in the connection map (empty when it has no entry)
GatewayList ==
    IF "gateway" \in DOMAIN connection_map THEN connection_map["gateway"] ELSE <<>>

(* C11 as stated: when find_best_tree has returned, every node that has a  *)
(* gateway edge in the connection map is a direct child of the gateway,    *)
(* however many such nodes there are.                                      *)
C11_GatewayUnlimited ==
    pc = "assign" =>
        \A n \in Names : InMap("gateway", n) => nodes[n].parent = Some("gateway")

(* C11 amended: the gateway's fan-out is capped at 4: when find_best_tree  *)
(* has returned, the gateway's children are the first 4 entries of its     *)
(* list in the connection map (all of them when there are at most 4), and  *)
(* only those nodes have the gateway as parent.                            *)
C11_GatewayCapped ==
    pc = "assign" =>
        /\ gateway.children =
               SubSeq(GatewayList, 1,
                      IF Len(GatewayList) < 4 THEN Len(GatewayList) ELSE 4)
        /\ \A n \in Names :
               nodes[n].parent = Some("gateway") <=> n \in Range(gateway.children)

\* six nodes have a gateway edge: four are the gateway's children, the fifth
\* and the sixth are attached below one of them
C11_Witness ==
    /\ pc = "assign"
    /\ Len(GatewayList) = 6
    /\ Len(gateway.children) = 4
    /\ \A i \in 5..6 :
           /\ Attached(GatewayList[i])
           /\ ParentOf(GatewayList[i]) \in Range(gateway.children)

----------------------------------------------------------------------------
(* C12 as stated: when no gateway has been set, find_best_tree and         *)
(* assign_frequencies each end in a failure reported to the caller.        *)
C12_NoGatewayFatal ==
    (gateway = None /\ pc \in {"assign", "done", "crashed"}) => exc # None

\* without a gateway no stage has raised, and find_best_tree returned None
NoGatewayStates ==
    gateway = None =>
        /\ exc = None
        /\ pc # "crashed"
        /\ unreachable_nodes = None

\* a step of find_best_tree or assign_frequencies without a gateway returns
\* at once and writes no field of a node, nor the gateway, queue or pool
NoGatewayStep ==
    (gateway = None /\ pc \in {"tree", "assign"}) =>
        /\ pc' = (IF pc = "tree" THEN "assign" ELSE "done")
        /\ nodes' = nodes
        /\ gateway' = None
        /\ queue' = queue
        /\ freq_pool' = freq_pool

(* C12 amended: when no gateway has been set, find_best_tree returns None  *)
(* and assign_frequencies returns, at once and without raising or          *)
(* reporting any failure; both leave every node's parent, children,        *)
(* visited, freq_up and freq_down unchanged.                               *)
C12_NoGatewayReturns ==
    /\ []NoGatewayStates
    /\ [][NoGatewayStep]_vars

\* both stages have returned on a planner without a gateway whose nodes are
\* linked to each other: no node was attached or given a frequency
C12_Witness ==
    /\ gateway = None
    /\ pc = "done"
    /\ connection_map # EmptyMap
    /\ \A n \in Names :
           /\ nodes[n].parent = None /\ ~nodes[n].visited
           /\ nodes[n].freq_up = None /\ nodes[n].freq_down = None

----------------------------------------------------------------------------
\* the identities that exist: the registered nodes and the gateway id
Identities == Names \cup {"gateway"}

(* C13: adding a failed connection in which either endpoint is neither a   *)
(* registered node nor the gateway id is rejected with an error and leaves *)
(* failed_connections unchanged; failed_connections only ever contains     *)
(* pairs whose endpoints are registered nodes or the gateway.              *)
C13_UnknownEndpointRejected ==
    /\ \A c \in failed_connections : c[1] \in Identities /\ c[2] \in Identities
    /\ pc = "menu" =>
           \A a \in InputNames, b \in InputNames :
               (a \notin Identities \/ b \notin Identities) =>
                   LET o == AddOutcome(failed_connections, a, b)
                   IN  /\ o.out \in {"error1", "error2"}
                       /\ o.failed = failed_connections

\* the menu holds the failed pair (n1, n2); typing the unknown name 'ghost'
\* first or second is refused with the error of that position
C13_Witness ==
    /\ pc = "menu"
    /\ failed_connections = {<<"n1", "n2">>}
    /\ "ghost" \in InputNames \ Identities
    /\ AddOutcome(failed_connections, "ghost", "n1") =
           [out |-> "error1", failed |-> failed_connections]
    /\ AddOutcome(failed_connections, "n1", "ghost") =
           [out |-> "error2", failed |-> failed_connections]

----------------------------------------------------------------------------
\* the nodes with children among those assign_frequencies has dequeued, in
\* the order it dequeued them
BranchingServed == SelectSeq(served, LAMBDA n : nodes[n].children # <<>>)

(* C14: assign_frequencies dequeues the nodes in breadth-first order of    *)
(* the tree, and the k-th node with children it dequeues receives the k-th *)
(* value of the pool (16, 17, ...); a node without children receives no    *)
(* downlink. On a chain gateway->N1->...->N5 the nodes N1..N4 receive 16,  *)
(* 17, 18, 19 and N5 receives no downlink.                                 *)
C14_PoolFrontToBack ==
    pc \in {"freqLoop", "done", "crashed"} =>
        LET order == TreeOrder(gateway.children)
            k == Len(available_frequencies)
        IN  /\ served = SubSeq(order, 1, Len(served))
            /\ \A i \in 1..Len(BranchingServed) :
                   nodes[BranchingServed[i]].freq_down =
                       IF i <= k THEN Some(available_frequencies[i]) ELSE None
            /\ \A i \in 1..k : available_frequencies[i] = 15 + i
            /\ \A n \in Names :
                   (nodes[n].children = <<>> \/ n \notin Range(served)) =>
                       nodes[n].freq_down = None
            /\ freq_pool = SubSeq(available_frequencies,
                                  IF Len(BranchingServed) < k
                                  THEN Len(BranchingServed) + 1 ELSE k + 1, k)

\* the chain gateway->N1->N2->N3->N4->N5 served from the pool 16..30
C14_Witness ==
    /\ pc = "done"
    /\ available_frequencies = ListRange(16, 31)
    /\ \E N1 \in Names, N2 \in Names, N3 \in Names, N4 \in Names, N5 \in Names :
           /\ gateway.children = <<N1>>
           /\ nodes[N1].children = <<N2>> /\ nodes[N1].freq_down = Some(16)
           /\ nodes[N2].children = <<N3>> /\ nodes[N2].freq_down = Some(17)
           /\ nodes[N3].children = <<N4>> /\ nodes[N3].freq_down = Some(18)
           /\ nodes[N4].children = <<N5>> /\ nodes[N4].freq_down = Some(19)
           /\ nodes[N5].children = <<>> /\ nodes[N5].freq_down = None
           /\ served = <<N1, N2, N3, N4, N5>>

----------------------------------------------------------------------------
(* C15: when find_best_tree finishes, the returned unreachable list is     *)
(* exactly the nodes whose visited flag is false, each once, which are the *)
(* nodes whose parent is unset, and the connected-node count plus the      *)
(* length of the unreachable list equals the number of nodes.              *)
C15_UnreachableIsUnvisited ==
    pc = "assign" =>
        /\ Range(unreachable_nodes) = {n \in Names : ~nodes[n].visited}
        /\ Range(unreachable_nodes) = {n \in Names : nodes[n].parent = None}
        /\ Cardinality(Range(unreachable_nodes)) = Len(unreachable_nodes)
        /\ visited_count + Len(unreachable_nodes) = Len(keys)
        /\ visited_count = Cardinality({n \in Names : nodes[n].visited})

\* four of six nodes were attached and two are returned as unreachable
C15_Witness ==
    /\ pc = "assign"
    /\ visited_count = 4
    /\ Len(unreachable_nodes) = 2
    /\ \E n \in Range(unreachable_nodes) : n \in DOMAIN connection_map

----------------------------------------------------------------------------
(* C16 as stated: when find_best_tree finishes, no unreachable node is a   *)
(* connection-map neighbour of the gateway, or of an attached node that    *)
(* still has fewer than 4 children.                                        *)
C16_MaximalGatewayUncapped ==
    pc = "assign" =>
        \A u \in Range(unreachable_nodes) :
            /\ ~InMap("gateway", u)
            /\ \A a \in Names :
                   (Attached(a) /\ Len(nodes[a].children) < 4) => ~InMap(a, u)

(* C16 amended: when find_best_tree finishes, no unreachable node is a     *)
(* connection-map neighbour of the gateway while the gateway has fewer     *)
(* than 4 children, or of an attached node that has fewer than 4 children. *)
C16_MaximalUnderCaps ==
    pc = "assign" =>
        \A u \in Range(unreachable_nodes) :
            /\ Len(gateway.children) < 4 => ~InMap("gateway", u)
            /\ \A a \in Names :
                   (Attached(a) /\ Len(nodes[a].children) < 4) => ~InMap(a, u)

\* the gateway holds 4 children and a fifth neighbour of the gateway, linked
\* to no other node, is unreachable
C16_Witness ==
    /\ pc = "assign"
    /\ Len(gateway.children) = 4
    /\ \E u \in Range(unreachable_nodes) :
           /\ InMap("gateway", u)
           /\ connection_map[u] = <<"gateway">>

----------------------------------------------------------------------------
\* the sequence s holds no element twice
NoDup(s) == Cardinality(Range(s)) = Len(s)

(* C17: between the iterations of find_best_tree's loop and after it,      *)
(* parent and children agree: node c is in the children list of p (a node  *)
(* or the gateway) iff c's parent is p, each node is in at most one        *)
(* children list and at most once in it, and a node is marked visited iff  *)
(* its parent is set.                                                      *)
C17_ParentChildrenAgree ==
    pc \in {"treeLoop", "assign"} =>
        /\ \A c \in Names, p \in Names \cup {"gateway"} :
               c \in Range(ChildrenOf(p)) <=> nodes[c].parent = Some(p)
        /\ \A p \in Names \cup {"gateway"} :
               NoDup(ChildrenOf(p)) /\ Range(ChildrenOf(p)) \subseteq Names
        /\ \A c \in Names :
               Cardinality({p \in Names \cup {"gateway"} :
                                c \in Range(ChildrenOf(p))}) <= 1
        /\ \A n \in Names : nodes[n].visited <=> nodes[n].parent # None

\* in the middle of the loop: the gateway holds 4 children, one of them has
\* attached a child of its own, nodes wait in the queue and one node is not
\* yet visited
C17_Witness ==
    /\ pc = "treeLoop"
    /\ queue # <<>>
    /\ Len(gateway.children) = 4
    /\ \E n \in Range(gateway.children) : nodes[n].children # <<>>
    /\ \E n \in Names : ~nodes[n].visited

----------------------------------------------------------------------------
(* C18 as stated: find_best_tree and assign_frequencies both end with an   *)
(* empty queue.                                                            *)
C18_EndWithEmptyQueue ==
    pc \in {"assign", "done", "crashed"} => queue = <<>>

\* the names a walk has enqueued so far are those it has dequeued and those
\* waiting in the queue: none occurs twice; a walk that returns has emptied
\* its queue, and only the exhausted pool ends a walk otherwise
WalkStates ==
    /\ pc \in {"treeLoop", "freqLoop", "crashed"} => NoDup(served \o queue)
    /\ pc \in {"assign", "done"} => (queue = <<>> /\ NoDup(served))
    /\ pc = "crashed" => (exc = PoolExhausted /\ freq_pool = <<>>)
    /\ pc \in {"treeLoop", "assign"} =>
           Range(served \o queue) \subseteq Names \cup {"gateway"}
    /\ pc \in {"freqLoop", "done", "crashed"} => Range(served \o queue) \subseteq Names

(* C18 amended: for every node set and connection map, find_best_tree      *)
(* terminates with an empty queue, and assign_frequencies terminates       *)
(* either with an empty queue or, when the pool is exhausted, with the     *)
(* exception of C7 and the rest of its queue unserved; each node is        *)
(* enqueued and dequeued at most once in each of them.                     *)
C18_WalksTerminate ==
    /\ []WalkStates
    /\ (pc = "tree") ~> (pc = "assign")
    /\ (pc = "assign") ~> (pc \in {"done", "crashed"})

\* a frequency walk over a tree of five nodes has returned, each dequeued once
C18_Witness ==
    /\ pc = "done"
    /\ queue = <<>>
    /\ Len(served) = 5
    /\ Range(served) = Names
    /\ visited_count = 5

====
